---- MODULE Spec2Model ----
(***************************************************************************)
(* Model of two event-driven components of the AdGuard browser extension:  *)
(*                                                                         *)
(*   - CustomFilterService (background page): three message handlers and   *)
(*     the webNavigation.onCommitted listener injectSubscriptionScript;    *)
(*   - the sample extension's popup script (Assistant Launcher).           *)
(*                                                                         *)
(* Every handler invocation is a record in a history sequence.  A handler  *)
(* runs synchronously up to its first await (one action) and is resumed    *)
(* when the awaited external promise settles (a second action).  External  *)
(* collaborators (tab/frame registry, filter API, script injection, the    *)
(* assistant routine) are the environment: their results are inputs drawn  *)
(* from small sets.                                                        *)
(***************************************************************************)
EXTENDS Integers, Sequences, FiniteSets

VARIABLES
    navInv,          \* invocations of injectSubscriptionScript, in dispatch order
    execCalls,       \* calls of browser.tabs.executeScript, in call order
    msgInv,          \* invocations of the three message handlers, in dispatch order
    apiCalls,        \* calls of CustomFilterApi.*, in call order
    debounceCalls,   \* calls of Engine.debounceUpdate: the invoking msgInv index
    engineTimer,     \* TRUE while the debounce timer of the engine is armed
    engineRunning,   \* TRUE while a refresh of the engine is in progress
    listening,       \* popup: the click listener is registered
    windowOpen,      \* popup: the popup window is still open
    clicks,          \* popup: one record per click on the openAssistant button
    queryCalls,      \* popup: calls of chrome.tabs.query
    openCalls,       \* popup: calls of openAssistant
    logLines,        \* popup: lines written with console.log
    closeCalls,      \* popup: calls of window.close: the invoking click
    unhandled        \* popup: clicks whose callback promise rejected, unhandled

bgVars == <<navInv, execCalls, msgInv, apiCalls, debounceCalls,
            engineTimer, engineRunning>>
popupVars == <<listening, windowOpen, clicks, queryCalls, openCalls,
               logLines, closeCalls, unhandled>>
vars == <<navInv, execCalls, msgInv, apiCalls, debounceCalls,
          engineTimer, engineRunning,
          listening, windowOpen, clicks, queryCalls, openCalls,
          logLines, closeCalls, unhandled>>

-----------------------------------------------------------------------------
(* Bounds *)

\* Handler invocations (navigation events plus messages) dispatched in a run.
MaxInv == 2
\* Clicks on the openAssistant button in a run.
MaxClicks == 3

-----------------------------------------------------------------------------
(* Program constants *)

BACKGROUND_TAB_ID == -1
MAIN_FRAME_ID == 0
SUBSCRIBE_OUTPUT == "pages/subscribe"

\* The value of an expression that evaluates to undefined.
Undefined == "undefined"

-----------------------------------------------------------------------------
(* Input domains *)

TabIds == {BACKGROUND_TAB_ID, 1}
FrameIds == {MAIN_FRAME_ID, 1}
\* URLs a navigation event can carry.
EventUrls == {"https://example.com/", "about:blank"}
\* URLs the tab/frame registry can record for a frame.
FrameUrls == {"https://example.com/", "ws://example.com/", "about:blank"}
\* Results of tabsApi.getTabFrame: undefined (no such frame is tracked) or the
\* frame record with the URL the registry holds for the frame.
NoFrame == [found |-> FALSE, url |-> ""]
Frame(u) == [found |-> TRUE, url |-> u]
FrameResults == {NoFrame} \cup {Frame(u) : u \in FrameUrls}

Errors == {"E1", "E2"}
Metadatas == {"M1", "M2"}
InfoResults == {"I1"}

Fulfilled(v) == [kind |-> "fulfilled", value |-> v]
Rejected(e) == [kind |-> "rejected", value |-> e]
Pending == [kind |-> "pending", value |-> Undefined]
Thrown(e) == [kind |-> "thrown", value |-> e]

\* What a call of Engine.debounceUpdate can hand back to its caller: a plain
\* value, or a promise that is still pending.
DebounceReturns == {Fulfilled(Undefined), Pending}
\* The handler made no call of Engine.debounceUpdate.
NotCalled == [kind |-> "none", value |-> Undefined]

-----------------------------------------------------------------------------
(* injectSubscriptionScript *)

StartsWith(s, p) == Len(s) >= Len(p) /\ SubSeq(s, 1, Len(p)) = p

\* url.indexOf('http') === 0 || url.indexOf('ws') === 0
isHttpOrWsRequest(url) == StartsWith(url, "http") \/ StartsWith(url, "ws")

ShouldInjectAnyTab(tabId, frameId, frame) ==
    /\ frame.found
    /\ frameId = MAIN_FRAME_ID
    /\ isHttpOrWsRequest(frame.url)

ShouldInjectAnyFrame(tabId, frameId, frame) ==
    /\ tabId # BACKGROUND_TAB_ID
    /\ frame.found
    /\ isHttpOrWsRequest(frame.url)

ShouldInjectAnyUrl(tabId, frameId, frame) ==
    /\ tabId # BACKGROUND_TAB_ID
    /\ frame.found
    /\ frameId = MAIN_FRAME_ID

\* The guards of injectSubscriptionScript: TRUE iff control reaches the try.
ShouldInject(tabId, frameId, frame) ==
    /\ tabId # BACKGROUND_TAB_ID
    /\ frame.found
    /\ frameId = MAIN_FRAME_ID
    /\ isHttpOrWsRequest(frame.url)

InjectDetailsAtEnd(frameId) ==
    [file |-> "/" \o SUBSCRIBE_OUTPUT \o ".js",
     runAt |-> "document_end",
     frameId |-> frameId]

\* The second argument of browser.tabs.executeScript.
InjectDetails(frameId) ==
    [file |-> "/" \o SUBSCRIBE_OUTPUT \o ".js",
     runAt |-> "document_start",
     frameId |-> frameId]

InjectOutcomeNoCatch(res) ==
    IF res.kind \in {"rejected", "thrown"} THEN Rejected(res.value)
    ELSE Fulfilled(Undefined)

\* The handler's promise once the try/catch around the injection is left.
InjectOutcome(res) == Fulfilled(Undefined)

Dispatched == Len(navInv) + Len(msgInv)

\* A committed navigation is delivered to injectSubscriptionScript.  frame is
\* what the registry returns for (tabId, frameId); sync is what the call of
\* executeScript does at once: throw, or return a promise still pending.
NavCommitted(tabId, frameId, url, frame, sync) ==
    /\ Dispatched < MaxInv
    /\ LET i == Len(navInv) + 1
           inject == ShouldInject(tabId, frameId, frame)
           awaits == inject /\ sync.kind = "pending"
       IN /\ ~inject => sync = Pending
          /\ navInv' = Append(navInv,
                 [tabId |-> tabId, frameId |-> frameId, url |-> url,
                  frame |-> frame,
                  pc |-> IF awaits THEN "await" ELSE "done",
                  injection |-> sync,
                  promise |-> IF awaits THEN Pending
                              ELSE IF inject THEN InjectOutcome(sync)
                              ELSE Fulfilled(Undefined)])
          /\ execCalls' = IF inject
                          THEN Append(execCalls,
                                 [by |-> i, tabId |-> tabId,
                                  details |-> InjectDetails(frameId)])
                          ELSE execCalls
    /\ UNCHANGED <<msgInv, apiCalls, debounceCalls,
                   engineTimer, engineRunning, popupVars>>

\* The promise of executeScript settles and the suspended handler resumes.
ExecuteScriptSettled(i, res) ==
    /\ i \in 1..Len(navInv)
    /\ navInv[i].pc = "await"
    /\ navInv' = [navInv EXCEPT ![i].pc = "done",
                                ![i].injection = res,
                                ![i].promise = InjectOutcome(res)]
    /\ UNCHANGED <<execCalls, msgInv, apiCalls, debounceCalls,
                   engineTimer, engineRunning, popupVars>>

-----------------------------------------------------------------------------
(* Message handlers *)

FilterUrls == {"https://example.com/list.txt"}
FilterNames == {"Test"}
FilterIds == {1000}

\* Results an external filter API call can settle with.
ApiResults(type) ==
    {Rejected(e) : e \in Errors} \cup
    CASE type = "LoadCustomFilterInfo" -> {Fulfilled(r) : r \in InfoResults}
      [] type = "SubscribeToCustomFilter" -> {Fulfilled(m) : m \in Metadatas}
      [] type = "RemoveAntiBannerFilter" -> {Fulfilled(Undefined)}

\* A handler starts: it makes its one external call and suspends on it.
StartHandler(type, data, api, args) ==
    /\ Dispatched < MaxInv
    /\ msgInv' = Append(msgInv,
           [type |-> type, data |-> data, pc |-> "await",
            api |-> Pending, promise |-> Pending, response |-> Pending])
    /\ apiCalls' = Append(apiCalls,
           [by |-> Len(msgInv) + 1, api |-> api, args |-> args])
    /\ UNCHANGED <<navInv, execCalls, debounceCalls,
                   engineTimer, engineRunning, popupVars>>

\* onCustomFilterInfoLoad up to the call of CustomFilterApi.getFilterInfo.
onCustomFilterInfoLoad(url, title) ==
    StartHandler("LoadCustomFilterInfo", [url |-> url, title |-> title],
                 "getFilterInfo", <<url, title>>)

CreateFilterArgsDisabled(filter) ==
    [customUrl |-> filter.customUrl, title |-> filter.name,
     trusted |-> filter.trusted, enabled |-> FALSE]

\* The argument onCustomFilterSubscription passes to createFilter.
CreateFilterArgs(filter) ==
    [customUrl |-> filter.customUrl, title |-> filter.name,
     trusted |-> filter.trusted, enabled |-> TRUE]

\* onCustomFilterSubscription up to the await of CustomFilterApi.createFilter.
onCustomFilterSubscription(filter) ==
    StartHandler("SubscribeToCustomFilter", [filter |-> filter],
                 "createFilter", <<CreateFilterArgs(filter)>>)

\* onCustomFilterRemove up to the await of CustomFilterApi.removeFilter.
onCustomFilterRemove(filterId) ==
    StartHandler("RemoveAntiBannerFilter", [filterId |-> filterId],
                 "removeFilter", <<filterId>>)

InfoLoadOutcomeSwallow(res) ==
    IF res.kind = "rejected" THEN Fulfilled(Undefined) ELSE res

\* onCustomFilterInfoLoad returns the promise of getFilterInfo itself.
InfoLoadOutcome(res) == res

\* onCustomFilterSubscription: a rejected await throws out of the handler,
\* otherwise filterMetadata is returned.
SubscriptionOutcome(res) ==
    IF res.kind = "fulfilled" THEN Fulfilled(res.value) ELSE Rejected(res.value)

SubscriptionSignalsAlways(res) == TRUE

\* Engine.debounceUpdate() is reached only when the await did not throw.
SubscriptionSignals(res) == res.kind = "fulfilled"

\* onCustomFilterRemove: the awaited value is dropped, a rejection propagates.
RemoveOutcome(res) ==
    IF res.kind = "fulfilled" THEN Fulfilled(Undefined) ELSE Rejected(res.value)

HandlerOutcome(type, res) ==
    CASE type = "LoadCustomFilterInfo" -> InfoLoadOutcome(res)
      [] type = "SubscribeToCustomFilter" -> SubscriptionOutcome(res)
      [] type = "RemoveAntiBannerFilter" -> RemoveOutcome(res)

HandlerSignals(type, res) ==
    type = "SubscribeToCustomFilter" /\ SubscriptionSignals(res)

WaitsForRefreshAwaited(ret) == ret.kind = "pending"

\* Engine.debounceUpdate() is a bare call statement: whatever it returns is
\* dropped, and the handler never suspends on it.
WaitsForRefresh(ret) == FALSE

\* The external call of handler i settles with res and the handler runs its
\* continuation to the end: the refresh signal (subscribe only), to which the
\* engine hands back ret, then the return or the throw.
FilterApiSettled(i, res, ret) ==
    /\ i \in 1..Len(msgInv)
    /\ msgInv[i].pc = "await"
    /\ res \in ApiResults(msgInv[i].type)
    /\ LET signals == HandlerSignals(msgInv[i].type, res)
           waits == signals /\ WaitsForRefresh(ret)
       IN /\ ret \in (IF signals THEN DebounceReturns ELSE {NotCalled})
          /\ msgInv' = [msgInv EXCEPT
                 ![i].pc = IF waits THEN "awaitRefresh" ELSE "done",
                 ![i].api = res,
                 ![i].promise = IF waits THEN Pending
                                ELSE HandlerOutcome(msgInv[i].type, res)]
          /\ debounceCalls' = IF signals THEN Append(debounceCalls, i)
                              ELSE debounceCalls
          /\ engineTimer' = (engineTimer \/ signals)
    /\ UNCHANGED <<navInv, execCalls, apiCalls, engineRunning,
                   popupVars>>

\* The message dispatcher answers message i with the settled handler promise.
MessageResponded(i) ==
    /\ i \in 1..Len(msgInv)
    /\ msgInv[i].pc = "done"
    /\ msgInv[i].response = Pending
    /\ msgInv' = [msgInv EXCEPT ![i].response = msgInv[i].promise]
    /\ UNCHANGED <<navInv, execCalls, apiCalls, debounceCalls,
                   engineTimer, engineRunning, popupVars>>

\* The debounce timer of the engine expires and the refresh starts.
EngineTimerFired ==
    /\ engineTimer
    /\ engineTimer' = FALSE
    /\ engineRunning' = TRUE
    /\ UNCHANGED <<navInv, execCalls, msgInv, apiCalls, debounceCalls,
                   popupVars>>

\* A running refresh of the engine completes.
EngineUpdateDone ==
    /\ engineRunning
    /\ engineRunning' = FALSE
    /\ UNCHANGED <<navInv, execCalls, msgInv, apiCalls, debounceCalls,
                   engineTimer, popupVars>>

-----------------------------------------------------------------------------
(* Popup script of the sample extension *)

\* Tabs chrome.tabs.query can report as the active tab of the current window.
BrowserTabs == {[id |-> 7, url |-> "https://example.com/"],
                [id |-> 8, url |-> "about:blank"]}
\* Results of chrome.tabs.query: no tab, or the one active tab.
QueryResults == {<< >>} \cup {<<t>> : t \in BrowserTabs}
NoTab == [id |-> 0, url |-> ""]

\* The document finished loading: the click listener is registered.
DOMContentLoaded ==
    /\ ~listening
    /\ listening' = TRUE
    /\ UNCHANGED <<bgVars, windowOpen, clicks, queryCalls, openCalls,
                   logLines, closeCalls, unhandled>>

\* A click on the openAssistant button: the listener queries the active tab.
Click ==
    /\ listening
    /\ windowOpen
    /\ Len(clicks) < MaxClicks
    /\ clicks' = Append(clicks,
           [pc |-> "query", tab |-> NoTab, open |-> Pending,
            promise |-> Pending])
    /\ queryCalls' = Append(queryCalls,
           [by |-> Len(clicks) + 1,
            queryInfo |-> [active |-> TRUE, currentWindow |-> TRUE]])
    /\ UNCHANGED <<bgVars, listening, windowOpen, openCalls, logLines,
                   closeCalls, unhandled>>

\* chrome.tabs.query calls back with tabs.  With no tab, destructuring
\* currentTab throws and the callback's promise rejects; otherwise the line
\* is logged, openAssistant is called and the callback suspends on it.
TabsQueryCallback(c, tabs) ==
    /\ c \in 1..Len(clicks)
    /\ clicks[c].pc = "query"
    /\ IF tabs = << >>
       THEN /\ clicks' = [clicks EXCEPT ![c].pc = "done",
                                        ![c].promise = Rejected("TypeError")]
            /\ unhandled' = unhandled \cup {c}
            /\ UNCHANGED <<openCalls, logLines>>
       ELSE LET currentTab == tabs[1]
            IN /\ clicks' = [clicks EXCEPT ![c].pc = "await",
                                           ![c].tab = currentTab]
               /\ logLines' = Append(logLines,
                      <<"Opening Assistant UI for tab id=", currentTab.id,
                        " url=", currentTab.url>>)
               /\ openCalls' = Append(openCalls,
                      [by |-> c, tabId |-> currentTab.id])
               /\ UNCHANGED unhandled
    /\ UNCHANGED <<bgVars, listening, windowOpen, queryCalls, closeCalls>>

ClosesWindowAlways(res) == TRUE

\* window.close() is reached only when the await of openAssistant returned.
ClosesWindow(res) == res.kind = "fulfilled"

\* The promise of openAssistant settles and the callback resumes.
OpenAssistantSettled(c, res) ==
    /\ c \in 1..Len(clicks)
    /\ clicks[c].pc = "await"
    /\ clicks' = [clicks EXCEPT
           ![c].pc = "done",
           ![c].open = res,
           ![c].promise = IF res.kind = "fulfilled" THEN Fulfilled(Undefined)
                          ELSE Rejected(res.value)]
    /\ closeCalls' = IF ClosesWindow(res) THEN Append(closeCalls, c)
                     ELSE closeCalls
    /\ windowOpen' = (windowOpen /\ ~ClosesWindow(res))
    /\ unhandled' = IF res.kind = "fulfilled" THEN unhandled
                    ELSE unhandled \cup {c}
    /\ UNCHANGED <<bgVars, listening, queryCalls, openCalls, logLines>>

-----------------------------------------------------------------------------
(* Specifications *)

Init ==
    /\ navInv = << >>
    /\ execCalls = << >>
    /\ msgInv = << >>
    /\ apiCalls = << >>
    /\ debounceCalls = << >>
    /\ engineTimer = FALSE
    /\ engineRunning = FALSE
    /\ listening = FALSE
    /\ windowOpen = TRUE
    /\ clicks = << >>
    /\ queryCalls = << >>
    /\ openCalls = << >>
    /\ logLines = << >>
    /\ closeCalls = << >>
    /\ unhandled = {}

NavNext ==
    \/ \E tabId \in TabIds, frameId \in FrameIds, url \in EventUrls,
          frame \in FrameResults, sync \in {Pending} \cup {Thrown(e) : e \in Errors} :
          NavCommitted(tabId, frameId, url, frame, sync)
    \/ \E i \in 1..Len(navInv),
          res \in {Fulfilled(Undefined)} \cup {Rejected(e) : e \in Errors} :
          ExecuteScriptSettled(i, res)

MsgNext ==
    \/ \E url \in FilterUrls, title \in FilterNames :
          onCustomFilterInfoLoad(url, title)
    \/ \E customUrl \in FilterUrls, name \in FilterNames, trusted \in BOOLEAN :
          onCustomFilterSubscription(
              [customUrl |-> customUrl, name |-> name, trusted |-> trusted])
    \/ \E filterId \in FilterIds : onCustomFilterRemove(filterId)
    \/ \E i \in 1..Len(msgInv),
          res \in {Fulfilled(v) : v \in InfoResults \cup Metadatas \cup {Undefined}}
                  \cup {Rejected(e) : e \in Errors},
          ret \in DebounceReturns \cup {NotCalled} :
          FilterApiSettled(i, res, ret)
    \/ \E i \in 1..Len(msgInv) : MessageResponded(i)
    \/ EngineTimerFired
    \/ EngineUpdateDone

\* The background page: navigation events and messages, interleaved.
Next == NavNext \/ MsgNext

Spec == Init /\ [][Next]_vars

PopupNext ==
    \/ DOMContentLoaded
    \/ Click
    \/ \E c \in 1..Len(clicks), tabs \in QueryResults : TabsQueryCallback(c, tabs)
    \/ \E c \in 1..Len(clicks),
          res \in {Fulfilled(Undefined)} \cup {Rejected(e) : e \in Errors} :
          OpenAssistantSettled(c, res)

\* The popup page.
PopupSpec == Init /\ [][PopupNext]_vars

-----------------------------------------------------------------------------
(* Properties *)

\* Number of entries of the call log seq made by invocation i.
CallsBy(seq, i) == Cardinality({k \in 1..Len(seq) : seq[k].by = i})
TheCallBy(seq, i) == seq[CHOOSE k \in 1..Len(seq) : seq[k].by = i]
DebounceBy(i) == Cardinality({k \in 1..Len(debounceCalls) : debounceCalls[k] = i})

NavIds == 1..Len(navInv)
MsgIds == 1..Len(msgInv)
ClickIds == 1..Len(clicks)

\* The event is for a real tab's main frame, which the registry tracks.
TrackedMainFrame(r) ==
    r.tabId # BACKGROUND_TAB_ID /\ r.frameId = MAIN_FRAME_ID /\ r.frame.found

InjectedOnce(i) ==
    /\ CallsBy(execCalls, i) = 1
    /\ TheCallBy(execCalls, i).tabId = navInv[i].tabId
    /\ TheCallBy(execCalls, i).details.frameId = navInv[i].frameId
    /\ TheCallBy(execCalls, i).details.runAt = "document_start"

\* C1 as stated: an event for a tracked main frame whose own URL is HTTP/WS
\* gets exactly one injection call (tabId, frameId, runAt document_start), and
\* the injection calls are as many as such events.
C1_AsStated ==
    LET Q == {i \in NavIds : TrackedMainFrame(navInv[i])
                              /\ isHttpOrWsRequest(navInv[i].url)}
    IN /\ \A i \in Q : InjectedOnce(i)
       /\ Len(execCalls) = Cardinality(Q)

\* C1 amended: an event for a tracked main frame whose URL in the registry is
\* HTTP/WS gets exactly one injection call (tabId, frameId, runAt
\* document_start), whether or not an earlier event or a failed injection
\* preceded it, and the injection calls are as many as such events.
C1_InjectsOncePerQualifyingEvent ==
    LET Q == {i \in NavIds : TrackedMainFrame(navInv[i])
                              /\ isHttpOrWsRequest(navInv[i].frame.url)}
    IN /\ \A i \in Q : InjectedOnce(i)
       /\ Len(execCalls) = Cardinality(Q)

\* Two qualifying events for the same tab and frame, the first injection
\* failed, and two calls were made.
C1_Witness ==
    /\ Len(navInv) = 2
    /\ \A i \in NavIds : /\ TrackedMainFrame(navInv[i])
                          /\ isHttpOrWsRequest(navInv[i].frame.url)
                          /\ navInv[i].tabId = 1
    /\ navInv[1].injection.kind = "rejected"
    /\ Len(execCalls) = 2

\* C2 as stated: an event whose own URL is not HTTP/WS gets no injection
\* call, whatever the registry records.
C2_AsStated ==
    \A i \in NavIds :
        ~isHttpOrWsRequest(navInv[i].url) => CallsBy(execCalls, i) = 0

\* C2 amended: an event for a frame whose URL in the registry is not HTTP/WS
\* gets no injection call, whatever URL the event carries.
C2_NoInjectionForNonHttpFrameUrl ==
    \A i \in NavIds :
        (navInv[i].frame.found /\ ~isHttpOrWsRequest(navInv[i].frame.url))
            => /\ CallsBy(execCalls, i) = 0
               /\ navInv[i].promise = Fulfilled(Undefined)

\* A real tab's tracked main frame with a non-HTTP URL in the registry, the
\* event carrying an HTTP URL, handled.
C2_Witness ==
    \E i \in NavIds :
        /\ TrackedMainFrame(navInv[i])
        /\ navInv[i].frame.url = "about:blank"
        /\ isHttpOrWsRequest(navInv[i].url)
        /\ navInv[i].pc = "done"

\* C3: an event of the background pseudo-tab gets no injection call, whatever
\* its frame, its URL and the registry's answer.
C3_NoInjectionInBackgroundTab ==
    \A i \in NavIds :
        navInv[i].tabId = BACKGROUND_TAB_ID
            => /\ CallsBy(execCalls, i) = 0
               /\ navInv[i].promise = Fulfilled(Undefined)

\* A background-tab event for a tracked main frame with HTTP URLs, handled.
C3_Witness ==
    \E i \in NavIds :
        /\ navInv[i].tabId = BACKGROUND_TAB_ID
        /\ navInv[i].frameId = MAIN_FRAME_ID
        /\ navInv[i].frame.found
        /\ isHttpOrWsRequest(navInv[i].frame.url)
        /\ isHttpOrWsRequest(navInv[i].url)
        /\ navInv[i].pc = "done"

\* C4: an event of a frame other than the main frame gets no injection call,
\* even when the frame is tracked with an HTTP/WS URL.
C4_NoInjectionInSubframe ==
    \A i \in NavIds :
        navInv[i].frameId # MAIN_FRAME_ID
            => /\ CallsBy(execCalls, i) = 0
               /\ navInv[i].promise = Fulfilled(Undefined)

\* A subframe event of a real tab, tracked with HTTP URLs, handled.
C4_Witness ==
    \E i \in NavIds :
        /\ navInv[i].frameId # MAIN_FRAME_ID
        /\ navInv[i].tabId # BACKGROUND_TAB_ID
        /\ navInv[i].frame.found
        /\ isHttpOrWsRequest(navInv[i].frame.url)
        /\ isHttpOrWsRequest(navInv[i].url)
        /\ navInv[i].pc = "done"

\* C6: the promise of injectSubscriptionScript never rejects; once the
\* injection threw or rejected the handler has completed normally, and it
\* made that one call only.
C6_InjectionFailureSwallowed ==
    \A i \in NavIds :
        /\ navInv[i].promise.kind # "rejected"
        /\ navInv[i].pc = "done" => navInv[i].promise = Fulfilled(Undefined)
        /\ CallsBy(execCalls, i) <= 1
        /\ navInv[i].injection.kind \in {"rejected", "thrown"}
              => /\ navInv[i].pc = "done"
                 /\ CallsBy(execCalls, i) = 1

\* One injection rejected and another threw at the call.
C6_Witness ==
    /\ \E i \in NavIds : navInv[i].injection = Rejected("E1")
    /\ \E i \in NavIds : navInv[i].injection.kind = "thrown"

IsSubscribe(i) == msgInv[i].type = "SubscribeToCustomFilter"

\* C5: a subscribe message whose creation succeeded made exactly one
\* createFilter call with customUrl, title = name, trusted and enabled = TRUE,
\* signalled the engine exactly once, and returned the metadata the creation
\* produced; the signal is absent while the creation is pending and present
\* whenever the handler has returned.
C5_SubscribeCreatesSignalsReturns ==
    \A i \in MsgIds : IsSubscribe(i) =>
        /\ CallsBy(apiCalls, i) = 1
        /\ TheCallBy(apiCalls, i).api = "createFilter"
        /\ TheCallBy(apiCalls, i).args =
              <<[customUrl |-> msgInv[i].data.filter.customUrl,
                 title |-> msgInv[i].data.filter.name,
                 trusted |-> msgInv[i].data.filter.trusted,
                 enabled |-> TRUE]>>
        /\ msgInv[i].pc = "await" => DebounceBy(i) = 0
        /\ msgInv[i].api.kind = "fulfilled"
              => /\ DebounceBy(i) = 1
                 /\ msgInv[i].promise = Fulfilled(msgInv[i].api.value)
        /\ msgInv[i].promise.kind = "fulfilled" => DebounceBy(i) = 1
        /\ msgInv[i].response.kind = "fulfilled"
              => msgInv[i].response.value = msgInv[i].api.value

\* The subscribe message of the specification's example, answered.
C5_Witness ==
    \E i \in MsgIds :
        /\ IsSubscribe(i)
        /\ msgInv[i].data.filter = [customUrl |-> "https://example.com/list.txt",
                                    name |-> "Test", trusted |-> FALSE]
        /\ msgInv[i].response = Fulfilled("M2")

IsInfoOrRemove(i) ==
    msgInv[i].type \in {"LoadCustomFilterInfo", "RemoveAntiBannerFilter"}

\* C7: a rejected getFilterInfo or removeFilter makes the handler's promise,
\* and the response, a rejection with the same error; the external call is
\* made once; no refresh is signalled; a successful removal returns undefined.
C7_InfoAndRemoveErrorsPropagate ==
    \A i \in MsgIds : IsInfoOrRemove(i) =>
        /\ CallsBy(apiCalls, i) = 1
        /\ TheCallBy(apiCalls, i).api =
              (IF msgInv[i].type = "LoadCustomFilterInfo" THEN "getFilterInfo"
               ELSE "removeFilter")
        /\ DebounceBy(i) = 0
        /\ msgInv[i].api.kind = "rejected"
              => /\ msgInv[i].promise = Rejected(msgInv[i].api.value)
                 /\ msgInv[i].response \in {Pending, Rejected(msgInv[i].api.value)}
        /\ (msgInv[i].type = "RemoveAntiBannerFilter"
             /\ msgInv[i].api.kind = "fulfilled")
              => msgInv[i].promise = Fulfilled(Undefined)

\* A removal answered with the API's error and an info load rejected with
\* another error.
C7_Witness ==
    /\ \E i \in MsgIds : /\ msgInv[i].type = "RemoveAntiBannerFilter"
                          /\ msgInv[i].api = Rejected("E1")
                          /\ msgInv[i].response = Rejected("E1")
    /\ \E i \in MsgIds : /\ msgInv[i].type = "LoadCustomFilterInfo"
                          /\ msgInv[i].api = Rejected("E2")
                          /\ msgInv[i].response = Rejected("E2")

\* C10: a subscribe message whose creation failed signalled no refresh and
\* its promise is a rejection with the creation error; every refresh signal
\* comes from a subscribe handler whose creation has completed, and the
\* signals are as many as the successful creations.
C10_NoRefreshWithoutCreation ==
    /\ \A i \in MsgIds :
          (IsSubscribe(i) /\ msgInv[i].api.kind = "rejected")
              => /\ DebounceBy(i) = 0
                 /\ msgInv[i].promise = Rejected(msgInv[i].api.value)
                 /\ msgInv[i].response \in {Pending, Rejected(msgInv[i].api.value)}
    /\ \A k \in 1..Len(debounceCalls) :
          /\ debounceCalls[k] \in MsgIds
          /\ IsSubscribe(debounceCalls[k])
          /\ msgInv[debounceCalls[k]].api.kind = "fulfilled"
    /\ Len(debounceCalls) =
          Cardinality({i \in MsgIds : IsSubscribe(i)
                                      /\ msgInv[i].api.kind = "fulfilled"})

\* One creation failed and was answered with its error, another succeeded,
\* and one refresh was signalled.
C10_Witness ==
    /\ \E i \in MsgIds : /\ IsSubscribe(i)
                          /\ msgInv[i].response = Rejected("E2")
    /\ \E i \in MsgIds : /\ IsSubscribe(i)
                          /\ msgInv[i].api.kind = "fulfilled"
    /\ Len(debounceCalls) = 1

\* C9: a subscribe handler whose creation succeeded has returned the created
\* metadata in the step of the signal, whatever Engine.debounceUpdate handed
\* back (a value or a promise still pending) and whether or not any refresh
\* has started or completed; and a handler whose promise is
\* pending is suspended at its own external call, which has not settled:
\* nothing else (another handler's hung call, the refresh) keeps a message or
\* a navigation event from being handled.
C9_FireAndForget ==
    /\ \A i \in MsgIds :
          /\ (IsSubscribe(i) /\ msgInv[i].api.kind = "fulfilled")
                => /\ msgInv[i].pc = "done"
                   /\ msgInv[i].promise = Fulfilled(msgInv[i].api.value)
          /\ msgInv[i].promise = Pending
                => msgInv[i].pc = "await" /\ msgInv[i].api = Pending
          /\ msgInv[i].response # Pending
                => msgInv[i].response = msgInv[i].promise
    /\ \A k \in NavIds :
          navInv[k].promise = Pending
              => navInv[k].pc = "await" /\ navInv[k].injection = Pending

\* A subscribe message answered with its metadata while the refresh it
\* requested is still waiting on the debounce timer and none is running,
\* and a message dispatched before it is still suspended at its call.
C9_Witness ==
    \E i, j \in MsgIds :
        /\ j < i
        /\ msgInv[j].pc = "await"
        /\ IsSubscribe(i)
        /\ msgInv[i].response = Fulfilled("M1")
        /\ engineTimer
        /\ ~engineRunning

\* C8: every click made one query for the active tab of the current window;
\* openAssistant is called at most once per click, only after the query
\* called back, with that tab's id; window.close is called by a click only
\* after its openAssistant fulfilled; a click whose openAssistant rejected or
\* is still pending has not closed the window, and the rejection is left
\* unhandled on the callback's promise.
C8_CloseOnlyAfterAssistantOpened ==
    \A c \in ClickIds :
        /\ CallsBy(queryCalls, c) = 1
        /\ TheCallBy(queryCalls, c).queryInfo =
              [active |-> TRUE, currentWindow |-> TRUE]
        /\ CallsBy(openCalls, c) <= 1
        /\ CallsBy(openCalls, c) = 1
              => /\ clicks[c].pc \in {"await", "done"}
                 /\ clicks[c].tab \in BrowserTabs
                 /\ TheCallBy(openCalls, c).tabId = clicks[c].tab.id
        /\ clicks[c].pc = "await" => CallsBy(openCalls, c) = 1
        /\ Cardinality({k \in 1..Len(closeCalls) : closeCalls[k] = c}) =
              (IF clicks[c].open.kind = "fulfilled" THEN 1 ELSE 0)
        /\ clicks[c].open.kind = "fulfilled" => CallsBy(openCalls, c) = 1
        /\ clicks[c].open.kind = "rejected"
              => /\ clicks[c].promise = Rejected(clicks[c].open.value)
                 /\ c \in unhandled

\* One click's openAssistant rejected and left the popup open; a later click
\* closed it; a third is still waiting for openAssistant.
C8_Witness ==
    /\ \E c \in ClickIds : clicks[c].open = Rejected("E1")
    /\ \E c \in ClickIds : /\ clicks[c].open.kind = "fulfilled"
                            /\ closeCalls = <<c>>
    /\ \E c \in ClickIds : clicks[c].pc = "await"
    /\ ~windowOpen

====
